---- MODULE Spec2Model ----
(***************************************************************************)
(* Worker scripts of the video-to-text pipeline: youtube_download.py       *)
(* (setup / download jobs) and transcribe_script.py (transcribe job),      *)
(* their two output channels, and the parent-side Frame Decoder.           *)
(*                                                                         *)
(* A text is a sequence of one-character strings, so that prefixes,        *)
(* delimiters, escapes and slices are real operations on characters.       *)
(***************************************************************************)
EXTENDS Integers, Sequences, FiniteSets, TLC

\* ------------------------------------------------------------------------
\* Bounds of the model
\* ------------------------------------------------------------------------
\* most progress ticks the download collaborator delivers in one run
MaxTicks == 1
\* scaled chunk bounds: the slice loop of transcribe_script.py is uniform in
\* the bound, so besides MAX_CHUNK_SIZE itself it is run at bounds that make
\* multi-slice frames (SmallChunk) and an exactly-full single slice (MidChunk)
\* occur on texts of model size
SmallChunk == 3
MidChunk == 87

\* ------------------------------------------------------------------------
\* Wire tokens and messages
\* ------------------------------------------------------------------------
JSON_OUTPUT_START == <<"J","S","O","N","_","O","U","T","P","U","T","_","S","T","A","R","T">>
JSON_OUTPUT_END == <<"J","S","O","N","_","O","U","T","P","U","T","_","E","N","D">>
CHUNK_PREFIX == <<"C","H","U","N","K",":">>
PROGRESS_PREFIX == <<"P","R","O","G","R","E","S","S",":">>
MAX_CHUNK_SIZE == 1024 * 1024

\* str(e) of the exceptions the interpreter itself raises
IndexErrorMsg == <<"l","i","s","t"," ","i","n","d","e","x"," ","o","u","t"," ","o","f"," ","r","a","n","g","e">>
TypeErrorCmpMsg == <<"'",">","'"," ","n","o","t"," ","s","u","p","p","o","r","t","e","d"," ","b","e","t","w","e","e","n"," ","i","n","s","t","a","n","c","e","s"," ","o","f"," ","'","N","o","n","e","T","y","p","e","'"," ","a","n","d"," ","'","i","n","t","'">>
TypeErrorJsonMsg == <<"O","b","j","e","c","t"," ","o","f"," ","t","y","p","e"," ","P","o","s","i","x","P","a","t","h"," ","i","s"," ","n","o","t"," ","J","S","O","N"," ","s","e","r","i","a","l","i","z","a","b","l","e">>
\* str(e) of an exception raised by an external collaborator
CollabMsgs == { <<"b","o","o","m">>, <<>> }

\* ------------------------------------------------------------------------
\* Python values
\* ------------------------------------------------------------------------
Absent == [tag |-> "absent", v |-> 0]
None == [tag |-> "None", v |-> 0]
PyInt(n) == [tag |-> "int", v |-> n]

\* bool(x) for None and ints
Truthy(x) == x.tag = "int" /\ x.v # 0
\* dict.get(key) and dict.get(key, default) on a field that may be absent
Get(x) == IF x = Absent THEN None ELSE x
GetDefault(x, dflt) == IF x = Absent THEN dflt ELSE x
\* a or b
PyOr(a, b) == IF Truthy(a) THEN a ELSE b

StrVal(s) == [t |-> "str", s |-> s, b |-> FALSE]
BoolVal(b) == [t |-> "bool", s |-> <<>>, b |-> b]
\* a pathlib.Path: a value json.dumps cannot encode
PathVal(s) == [t |-> "path", s |-> s, b |-> FALSE]

\* ------------------------------------------------------------------------
\* Number formatting
\* ------------------------------------------------------------------------
DigitChar == <<"0","1","2","3","4","5","6","7","8","9">>

RECURSIVE Digits(_)
Digits(n) == IF n < 10 THEN <<DigitChar[n + 1]>>
             ELSE Digits(n \div 10) \o <<DigitChar[(n % 10) + 1]>>

RECURSIVE Pow10(_)
Pow10(p) == IF p = 0 THEN 1 ELSE 10 * Pow10(p - 1)

RECURSIVE ZeroPad(_, _)
ZeroPad(s, w) == IF Len(s) >= w THEN s ELSE ZeroPad(<<"0">> \o s, w)

\* format spec "02d" on a non-negative int
Fmt02d(n) == ZeroPad(Digits(n), 2)

\* nearest integer to a/b, ties to even (a >= 0, b > 0)
RoundHalfEven(a, b) ==
    LET q == a \div b
        r == a % b
    IN  IF 2 * r < b THEN q
        ELSE IF 2 * r > b THEN q + 1
        ELSE IF q % 2 = 0 THEN q ELSE q + 1

\* format spec ".<p>f" on the non-negative quotient num/den
FmtFixed(num, den, p) ==
    LET scaled == RoundHalfEven(num * Pow10(p), den)
    IN  Digits(scaled \div Pow10(p)) \o <<".">> \o ZeroPad(Digits(scaled % Pow10(p)), p)

\* "mm:ss" rendering f"{n//60:02d}:{n%60:02d}"
FmtMMSS(n) == Fmt02d(n \div 60) \o <<":">> \o Fmt02d(n % 60)

\* ------------------------------------------------------------------------
\* json.dumps on a flat dict (insertion-ordered sequence of <<key, value>>)
\* ------------------------------------------------------------------------
EscapeChar(c) == IF c = "\"" THEN <<"\\", "\"">>
                 ELSE IF c = "\\" THEN <<"\\", "\\">>
                 ELSE IF c = "\n" THEN <<"\\", "n">>
                 ELSE <<c>>

RECURSIVE EscapeText(_)
EscapeText(s) == IF s = <<>> THEN <<>> ELSE EscapeChar(Head(s)) \o EscapeText(Tail(s))

DumpsStr(s) == <<"\"">> \o EscapeText(s) \o <<"\"">>

DumpsVal(x) == IF x.t = "str" THEN DumpsStr(x.s)
               ELSE IF x.b THEN <<"t","r","u","e">> ELSE <<"f","a","l","s","e">>

RECURSIVE DumpsMembers(_)
DumpsMembers(rec) ==
    IF rec = <<>> THEN <<>>
    ELSE DumpsStr(rec[1][1]) \o <<":"," ">> \o DumpsVal(rec[1][2])
         \o (IF Len(rec) > 1 THEN <<","," ">> ELSE <<>>) \o DumpsMembers(Tail(rec))

\* json.dumps raises TypeError on a value it cannot encode
Serializable(rec) == \A n \in 1..Len(rec) : rec[n][2].t \in {"str", "bool"}
json_dumps(rec) == <<"{">> \o DumpsMembers(rec) \o <<"}">>

\* ------------------------------------------------------------------------
\* Parsing of the canonical encoding (parent side)
\* ------------------------------------------------------------------------
ParseFail == [ok |-> FALSE, v |-> <<>>, next |-> 0]
ParseOk(v, next) == [ok |-> TRUE, v |-> v, next |-> next]

StartsWithAt(s, n, p) == n + Len(p) - 1 <= Len(s) /\ SubSeq(s, n, n + Len(p) - 1) = p
StartsWith(s, p) == StartsWithAt(s, 1, p)

RECURSIVE SkipWs(_, _)
SkipWs(s, n) == IF n <= Len(s) /\ s[n] = " " THEN SkipWs(s, n + 1) ELSE n

RECURSIVE ParseString(_, _, _)
ParseString(s, n, acc) ==
    IF n > Len(s) THEN ParseFail
    ELSE IF s[n] = "\"" THEN ParseOk(acc, n + 1)
    ELSE IF s[n] = "\\" THEN
        IF n + 1 > Len(s) THEN ParseFail
        ELSE IF s[n + 1] \in {"\"", "\\", "/"} THEN ParseString(s, n + 2, Append(acc, s[n + 1]))
        ELSE IF s[n + 1] = "n" THEN ParseString(s, n + 2, Append(acc, "\n"))
        ELSE ParseFail
    ELSE IF s[n] = "\n" THEN ParseFail
    ELSE ParseString(s, n + 1, Append(acc, s[n]))

ParseValue(s, n) ==
    IF n > Len(s) THEN ParseFail
    ELSE IF s[n] = "\"" THEN
        LET r == ParseString(s, n + 1, <<>>)
        IN  IF r.ok THEN ParseOk(StrVal(r.v), r.next) ELSE ParseFail
    ELSE IF StartsWithAt(s, n, <<"t","r","u","e">>) THEN ParseOk(BoolVal(TRUE), n + 4)
    ELSE IF StartsWithAt(s, n, <<"f","a","l","s","e">>) THEN ParseOk(BoolVal(FALSE), n + 5)
    ELSE ParseFail

RECURSIVE ParseMembers(_, _, _)
ParseMembers(s, n, acc) ==
    LET n1 == SkipWs(s, n) IN
    IF n1 > Len(s) \/ s[n1] # "\"" THEN ParseFail
    ELSE LET key == ParseString(s, n1 + 1, <<>>) IN
    IF ~key.ok THEN ParseFail
    ELSE LET n2 == SkipWs(s, key.next) IN
    IF n2 > Len(s) \/ s[n2] # ":" THEN ParseFail
    ELSE LET val == ParseValue(s, SkipWs(s, n2 + 1)) IN
    IF ~val.ok THEN ParseFail
    ELSE LET n4 == SkipWs(s, val.next)
             acc2 == Append(acc, <<key.v, val.v>>) IN
    IF n4 > Len(s) THEN ParseFail
    ELSE IF s[n4] = "," THEN ParseMembers(s, n4 + 1, acc2)
    ELSE IF s[n4] = "}" /\ SkipWs(s, n4 + 1) > Len(s) THEN ParseOk(acc2, n4 + 1)
    ELSE ParseFail

ParseJSON(s) ==
    LET n0 == SkipWs(s, 1) IN
    IF n0 > Len(s) \/ s[n0] # "{" THEN ParseFail
    ELSE LET n1 == SkipWs(s, n0 + 1) IN
    IF n1 <= Len(s) /\ s[n1] = "}"
    THEN (IF SkipWs(s, n1 + 1) > Len(s) THEN ParseOk(<<>>, n1 + 1) ELSE ParseFail)
    ELSE ParseMembers(s, n1, <<>>)

\* ------------------------------------------------------------------------
\* youtube_download.py: texts it writes
\* ------------------------------------------------------------------------
\* print(f"Error: {str(e)}", file=sys.stderr)
ErrorLine(msg) == <<"E","r","r","o","r",":"," ">> \o msg
MissingArgsLine == <<"E","r","r","o","r",":"," ","M","i","s","s","i","n","g"," ","a","r","g","u","m","e","n","t","s"," ","f","o","r"," ","d","o","w","n","l","o","a","d">>
NoOutputFileLine(path) == <<"E","r","r","o","r",":"," ","N","o"," ","o","u","t","p","u","t"," ","f","i","l","e"," ","f","o","u","n","d"," ","a","t"," ">> \o path
\* variant: the message is worded without the leading "Error"
ErrorDownloadingLine_reworded(msg) == <<"D","o","w","n","l","o","a","d"," ","f","a","i","l","e","d",":"," ">> \o msg
ErrorDownloadingLine(msg) == <<"E","r","r","o","r"," ","d","o","w","n","l","o","a","d","i","n","g",":"," ">> \o msg

\* os.path.join(temp_dir, name)
PathJoin(dir, name) == dir \o <<"/">> \o name

\* the dict setup prints: {'input_dir': input_dir, 'output_dir': output_dir}
SetupRecord(temp_dir) ==
    << <<<<"i","n","p","u","t","_","d","i","r">>, StrVal(PathJoin(temp_dir, <<"i","n","p","u","t">>))>>,
       <<<<"o","u","t","p","u","t","_","d","i","r">>, StrVal(PathJoin(temp_dir, <<"o","u","t","p","u","t">>))>> >>

\* variant: the url is reported as the file
DownloadRecord_file_is_url(path, url) ==
    << <<<<"s","u","c","c","e","s","s">>, BoolVal(TRUE)>>, <<<<"f","i","l","e">>, StrVal(url)>> >>

\* the dict download_video frames: {'success': True, 'file': output_path}
DownloadRecord(path, url) ==
    << <<<<"s","u","c","c","e","s","s">>, BoolVal(TRUE)>>, <<<<"f","i","l","e">>, StrVal(path)>> >>

\* variant: the end sentinel is printed before the payload
DownloadFrameLines_end_first(path, url) ==
    << JSON_OUTPUT_START, JSON_OUTPUT_END, json_dumps(DownloadRecord(path, url)) >>

\* the three print() calls of download_video's success branch, in order
DownloadFrameLines(path, url) ==
    << JSON_OUTPUT_START, json_dumps(DownloadRecord(path, url)), JSON_OUTPUT_END >>

\* variant: the result of download_video is not checked
download_exit_always_zero(success) == 0

\* exit status of the download branch of __main__: sys.exit(1) unless success
download_exit(success) == IF success THEN 0 ELSE 1

\* ------------------------------------------------------------------------
\* progress_hook
\* ------------------------------------------------------------------------
\* total_bytes = d.get('total_bytes') or d.get('total_bytes_estimate', 0)
total_bytes(d) == PyOr(Get(d.total_bytes), GetDefault(d.total_bytes_estimate, PyInt(0)))

\* variant: tests "speed is not None" instead of the truth value of speed
speed_str_not_none(speed) ==
    IF speed.tag = "int" THEN FmtFixed(speed.v, 1024 * 1024, 2) \o <<"M","i","B","/","s">>
    ELSE <<"N","/","A">>

speed_str(speed) ==
    IF Truthy(speed) THEN FmtFixed(speed.v, 1024 * 1024, 2) \o <<"M","i","B","/","s">>
    ELSE <<"N","/","A">>

eta_str(eta) == IF Truthy(eta) THEN FmtMMSS(eta.v) ELSE <<"0","0",":","0","0">>

elapsed_str(elapsed) == FmtMMSS(elapsed)

\* progress = (downloaded / total_bytes) * 100, rendered with ".1f"
progress_str(downloaded, total) == FmtFixed(downloaded.v * 100, total.v, 1)

progress_line(d, total, elapsed) ==
    PROGRESS_PREFIX
    \o progress_str(GetDefault(d.downloaded_bytes, PyInt(0)), total) \o <<"|">>
    \o speed_str(GetDefault(d.speed, PyInt(0))) \o <<"|">>
    \o eta_str(GetDefault(d.eta, PyInt(0))) \o <<"|">>
    \o elapsed_str(elapsed)

\* outcome of one call of the hook: "ignored" (status is not 'downloading'),
\* "skipped" (total not positive), "wrote" (one PROGRESS line) or "raised"
\* (None > 0 is a TypeError)
progress_hook(d, elapsed) ==
    IF d.status # "downloading" THEN [out |-> "ignored", line |-> <<>>]
    ELSE LET total == total_bytes(d) IN
         IF total.tag = "None" THEN [out |-> "raised", line |-> <<>>]
         ELSE IF total.v > 0 THEN [out |-> "wrote", line |-> progress_line(d, total, elapsed)]
         ELSE [out |-> "skipped", line |-> <<>>]

\* ------------------------------------------------------------------------
\* transcribe_script.py: texts it writes
\* ------------------------------------------------------------------------
StartingLine(input_dir) == <<"S","t","a","r","t","i","n","g"," ","t","r","a","n","s","c","r","i","p","t","i","o","n"," ","f","o","r"," ","d","i","r","e","c","t","o","r","y",":"," ">> \o input_dir
SourceLanguageLine(language) ==
    <<"S","o","u","r","c","e"," ","l","a","n","g","u","a","g","e",":"," ">> \o (IF language # <<"a","u","t","o">> THEN language ELSE <<"A","u","t","o","-","d","e","t","e","c","t">>)
ErrorTranscriptionLine(msg) == <<"E","r","r","o","r"," ","d","u","r","i","n","g"," ","t","r","a","n","s","c","r","i","p","t","i","o","n",":"," ">> \o msg

\* variant: the except clause prints but does not call sys.exit(1)
transcribe_except_exit_zero(msg) == [diag |-> ErrorTranscriptionLine(msg), code |-> 0]

\* what the except clause does: the diagnostic it prints and the status it exits with
transcribe_except(msg) == [diag |-> ErrorTranscriptionLine(msg), code |-> 1]

TranscribeRecord(text_output_dir, metadata_output_dir, language) ==
    << <<<<"t","e","x","t","_","o","u","t","p","u","t","_","d","i","r">>, text_output_dir>>,
       <<<<"m","e","t","a","d","a","t","a","_","o","u","t","p","u","t","_","d","i","r">>, metadata_output_dir>>,
       <<<<"d","e","t","e","c","t","e","d","_","l","a","n","g","u","a","g","e">>, StrVal(language)>> >>

Min(a, b) == IF a < b THEN a ELSE b

\* variant: the slice stops one character early
chunk_slice_short(s, i, size) == SubSeq(s, i + 1, Min(i + size - 1, Len(s)))

\* json_str[i:i + size], i counted from 0
chunk_slice(s, i, size) == SubSeq(s, i + 1, Min(i + size, Len(s)))

\* variant: the loop steps one past the slice it printed
range_next_skip(i, step) == i + step + 1

\* the value of i after i in range(0, len(json_str), step)
range_next(i, step) == i + step

\* print(f"CHUNK:{chunk}")
ChunkLine(chunk) == CHUNK_PREFIX \o chunk

\* ------------------------------------------------------------------------
\* Inputs
\* ------------------------------------------------------------------------
Paths == { <<"/","v">>, <<"a","\"","\\","\n">> }
Url == <<"u">>
TempDirs == { <<"/","t","1">>, <<"/","t","2">> }
InputDir == <<"/","i","n">>
Languages == { <<"a","u","t","o">>, <<"e","\"">> }
\* what transcribe_dir may return: two strings, or two pathlib.Path objects
TranscribeReturns ==
    { <<StrVal(<<"/","o","/","t">>), StrVal(<<"/","o","/","m">>)>>,
      <<StrVal(<<"o","\\","t">>), StrVal(<<"m">>)>>,
      <<PathVal(<<"/","o","/","t">>), PathVal(<<"/","o","/","m">>)>> }

YtArgvs == { <<>>, <<<<"s","e","t","u","p">>>>, <<<<"h","e","l","p">>>>, <<<<"d","o","w","n","l","o","a","d">>>> }
           \cup { <<<<"d","o","w","n","l","o","a","d">>, p>> : p \in Paths }
           \cup { <<<<"d","o","w","n","l","o","a","d">>, p, Url>> : p \in Paths }
TrArgvs == { <<>>, <<InputDir>> } \cup { <<InputDir, l>> : l \in Languages }

NoTick == [status |-> "none", total_bytes |-> Absent, total_bytes_estimate |-> Absent,
           downloaded_bytes |-> Absent, speed |-> Absent, eta |-> Absent]
FinishedTick == [NoTick EXCEPT !.status = "finished", !.total_bytes = PyInt(4),
                               !.downloaded_bytes = PyInt(4)]
DownloadingTicks ==
    [status : {"downloading"},
     total_bytes : {Absent, None, PyInt(0), PyInt(4)},
     total_bytes_estimate : {Absent, None, PyInt(0), PyInt(3)},
     downloaded_bytes : {Absent, PyInt(1)},
     speed : {Absent, None, PyInt(0), PyInt(1572864)},
     eta : {Absent, None, PyInt(0), PyInt(75)}]
Ticks == DownloadingTicks \cup {FinishedTick}
\* int(time.time() - start_time)
Elapseds == {0, 61}
ChunkSizes == {SmallChunk, MidChunk, MAX_CHUNK_SIZE}

\* ------------------------------------------------------------------------
\* State
\* ------------------------------------------------------------------------
VARIABLES
    script,     \* which worker script the process runs
    argv,       \* sys.argv[1:]
    chunkSize,  \* the chunk bound the slice loop runs at
    pc,         \* position of the process; "done" once it has exited
    stdout,     \* primary channel: the texts print() wrote, in order
    stderr,     \* diagnostic channel: the texts print(file=sys.stderr) wrote
    exitCode,   \* exit status (0 unless sys.exit set it), read when pc = "done"
    exc,        \* the exception raised in this run, "none" if none was
    results,    \* the dict handed to json.dumps for the Frame, <<>> before
    json_str,   \* transcribe_script.py: serialized results
    i,          \* transcribe_script.py: loop variable of the slice loop
    k,          \* download_video: next of the three frame prints
    dl,         \* download collaborator: "none", "running", "raised", "returned"
    exists,     \* os.path.exists(output_path): "unknown", "yes", "no"
    d,          \* the dict of the latest progress tick, NoTick if none
    hookOut,    \* what progress_hook did with d
    nticks,     \* progress ticks delivered so far
    dstate,     \* Frame Decoder state
    dpos,       \* Frame Decoder: lines of stdout consumed
    dbuf,       \* Frame Decoder: accumulation buffer
    dresult     \* Frame Decoder: outcome

vars == <<script, argv, chunkSize, pc, stdout, stderr, exitCode, exc, results, json_str,
          i, k, dl, exists, d, hookOut, nticks, dstate, dpos, dbuf, dresult>>

workerLocals == <<results, json_str, i, k>>
downloadVars == <<dl, exists, d, hookOut, nticks>>
decoderVars == <<dstate, dpos, dbuf, dresult>>
inputVars == <<script, argv, chunkSize>>

NoResult == [kind |-> "none", rec |-> <<>>, reason |-> "none"]
Ok(rec) == [kind |-> "Ok", rec |-> rec, reason |-> "none"]
Err(reason) == [kind |-> "Err", rec |-> <<>>, reason |-> reason]

Init ==
    /\ \/ script = "youtube_download" /\ argv \in YtArgvs /\ chunkSize = MAX_CHUNK_SIZE
       \/ script = "transcribe_script" /\ argv \in TrArgvs /\ chunkSize \in ChunkSizes
    /\ pc = "main"
    /\ stdout = <<>> /\ stderr = <<>> /\ exitCode = 0 /\ exc = "none"
    /\ results = <<>> /\ json_str = <<>> /\ i = 0 /\ k = 1
    /\ dl = "none" /\ exists = "unknown" /\ d = NoTick /\ hookOut = "none" /\ nticks = 0
    /\ dstate = "Scanning" /\ dpos = 0 /\ dbuf = <<>> /\ dresult = NoResult

\* the process prints diag to the diagnostic channel and ends with status code;
\* raised names the exception that led there ("none" on a plain sys.exit path)
ExitWithDiagnostic(raised, diag, code) ==
    /\ exc' = raised
    /\ stderr' = Append(stderr, diag)
    /\ exitCode' = code
    /\ pc' = "done"

\* ------------------------------------------------------------------------
\* youtube_download.py __main__
\* ------------------------------------------------------------------------
\* command = sys.argv[1] raises IndexError, caught by the outer except
YtNoCommand ==
    /\ script = "youtube_download" /\ pc = "main"
    /\ Len(argv) = 0
    /\ ExitWithDiagnostic("IndexError", ErrorLine(IndexErrorMsg), 1)
    /\ UNCHANGED <<inputVars, stdout, workerLocals, downloadVars, decoderVars>>

\* "setup", setup_dirs succeeds: one bare JSON line, the script falls off its end
YtSetupOk ==
    /\ script = "youtube_download" /\ pc = "main"
    /\ Len(argv) >= 1 /\ argv[1] = <<"s","e","t","u","p">>
    /\ \E temp_dir \in TempDirs :
          stdout' = Append(stdout, json_dumps(SetupRecord(temp_dir)))
    /\ pc' = "done"
    /\ UNCHANGED <<inputVars, stderr, exitCode, exc, workerLocals, downloadVars, decoderVars>>

\* "setup", mkdtemp or makedirs raises: setup_dirs prints and calls sys.exit(1)
YtSetupFail ==
    /\ script = "youtube_download" /\ pc = "main"
    /\ Len(argv) >= 1 /\ argv[1] = <<"s","e","t","u","p">>
    /\ \E msg \in CollabMsgs : ExitWithDiagnostic("OSError", ErrorLine(msg), 1)
    /\ UNCHANGED <<inputVars, stdout, workerLocals, downloadVars, decoderVars>>

\* a command that is neither "setup" nor "download": no branch is taken
YtOtherCommand ==
    /\ script = "youtube_download" /\ pc = "main"
    /\ Len(argv) >= 1 /\ argv[1] \notin { <<"s","e","t","u","p">>, <<"d","o","w","n","l","o","a","d">> }
    /\ pc' = "done"
    /\ UNCHANGED <<inputVars, stdout, stderr, exitCode, exc, workerLocals, downloadVars, decoderVars>>

\* "download" with len(sys.argv) < 4
YtDownloadMissingArgs ==
    /\ script = "youtube_download" /\ pc = "main"
    /\ Len(argv) >= 1 /\ argv[1] = <<"d","o","w","n","l","o","a","d">>
    /\ Len(argv) + 1 < 4
    /\ ExitWithDiagnostic("none", MissingArgsLine, 1)
    /\ UNCHANGED <<inputVars, stdout, workerLocals, downloadVars, decoderVars>>

\* "download" with output_path = sys.argv[2], url = sys.argv[3]: ydl.download starts
YtDownloadBegin ==
    /\ script = "youtube_download" /\ pc = "main"
    /\ Len(argv) >= 1 /\ argv[1] = <<"d","o","w","n","l","o","a","d">>
    /\ Len(argv) + 1 >= 4
    /\ pc' = "y_download"
    /\ dl' = "running"
    /\ UNCHANGED <<inputVars, stdout, stderr, exitCode, exc, workerLocals, exists, d, hookOut,
                   nticks, decoderVars>>

\* the collaborator calls progress_hook(t) from inside ydl.download. An exception
\* the hook raises propagates out of ydl.download into download_video's except
\* clause, which prints, returns False, and __main__ exits
Tick ==
    /\ pc = "y_download" /\ nticks < MaxTicks
    /\ \E t \in Ticks, elapsed \in Elapseds :
          LET h == progress_hook(t, elapsed) IN
          /\ d' = t
          /\ hookOut' = h.out
          /\ IF h.out = "raised"
             THEN /\ ExitWithDiagnostic("TypeError", ErrorDownloadingLine(TypeErrorCmpMsg),
                                        download_exit(FALSE))
                  /\ dl' = "raised"
             ELSE /\ stderr' = IF h.out = "wrote" THEN Append(stderr, h.line) ELSE stderr
                  /\ UNCHANGED <<pc, exitCode, exc, dl>>
    /\ nticks' = nticks + 1
    /\ UNCHANGED <<inputVars, stdout, workerLocals, exists, decoderVars>>

\* ydl.download raises
CollabRaise ==
    /\ pc = "y_download"
    /\ \E msg \in CollabMsgs :
          ExitWithDiagnostic("DownloadError", ErrorDownloadingLine(msg),
                             download_exit(FALSE))
    /\ dl' = "raised" /\ d' = NoTick /\ hookOut' = "none"
    /\ UNCHANGED <<inputVars, stdout, workerLocals, exists, nticks, decoderVars>>

\* ydl.download returns and os.path.exists(output_path) is true
CollabReturnFound ==
    /\ pc = "y_download"
    /\ dl' = "returned" /\ exists' = "yes" /\ d' = NoTick /\ hookOut' = "none"
    /\ results' = DownloadRecord(argv[2], argv[3])
    /\ k' = 1
    /\ pc' = "y_emit"
    /\ UNCHANGED <<inputVars, stdout, stderr, exitCode, exc, json_str, i, nticks, decoderVars>>

\* ydl.download returns and os.path.exists(output_path) is false
CollabReturnMissing ==
    /\ pc = "y_download"
    /\ dl' = "returned" /\ exists' = "no" /\ d' = NoTick /\ hookOut' = "none"
    /\ ExitWithDiagnostic("none", NoOutputFileLine(argv[2]), download_exit(FALSE))
    /\ UNCHANGED <<inputVars, stdout, workerLocals, nticks, decoderVars>>

\* one of the three print() calls of the success branch
YtEmitLine ==
    /\ pc = "y_emit" /\ k <= 3
    /\ stdout' = Append(stdout, DownloadFrameLines(argv[2], argv[3])[k])
    /\ k' = k + 1
    /\ UNCHANGED <<inputVars, pc, stderr, exitCode, exc, results, json_str, i, downloadVars,
                   decoderVars>>

\* return True; __main__ falls off its end
YtReturnTrue ==
    /\ pc = "y_emit" /\ k > 3
    /\ exitCode' = download_exit(TRUE)
    /\ pc' = "done"
    /\ UNCHANGED <<exc, inputVars, stdout, stderr, workerLocals, downloadVars, decoderVars>>

\* ------------------------------------------------------------------------
\* transcribe_script.py
\* ------------------------------------------------------------------------
\* input_dir = sys.argv[1] raises IndexError
TrMissingArg ==
    /\ script = "transcribe_script" /\ pc = "main"
    /\ Len(argv) = 0
    /\ LET h == transcribe_except(IndexErrorMsg) IN
          ExitWithDiagnostic("IndexError", h.diag, h.code)
    /\ UNCHANGED <<inputVars, stdout, workerLocals, downloadVars, decoderVars>>

language == IF Len(argv) + 1 > 2 THEN argv[2] ELSE <<"a","u","t","o">>

\* the two announcement lines, then transcribe_dir is called
TrBegin ==
    /\ script = "transcribe_script" /\ pc = "main"
    /\ Len(argv) >= 1
    /\ stderr' = stderr \o <<StartingLine(argv[1]), SourceLanguageLine(language)>>
    /\ pc' = "t_call"
    /\ UNCHANGED <<inputVars, stdout, exitCode, exc, workerLocals, downloadVars, decoderVars>>

\* transcribe_dir raises
TrCollabRaise ==
    /\ pc = "t_call"
    /\ \E msg \in CollabMsgs :
          LET h == transcribe_except(msg) IN
          ExitWithDiagnostic("TranscribeError", h.diag, h.code)
    /\ UNCHANGED <<inputVars, stdout, workerLocals, downloadVars, decoderVars>>

\* transcribe_dir returns; results is built and json.dumps(results) runs, which
\* raises TypeError (caught by the except clause) on a value it cannot encode
TrCollabReturn ==
    /\ pc = "t_call"
    /\ \E ret \in TranscribeReturns :
          LET r == TranscribeRecord(ret[1], ret[2], language) IN
          IF Serializable(r)
          THEN /\ results' = r
               /\ json_str' = json_dumps(r)
               /\ pc' = "t_start"
               /\ UNCHANGED <<stderr, exitCode, exc>>
          ELSE /\ LET h == transcribe_except(TypeErrorJsonMsg) IN
                      ExitWithDiagnostic("TypeError", h.diag, h.code)
               /\ UNCHANGED <<results, json_str>>
    /\ UNCHANGED <<inputVars, stdout, i, k, downloadVars, decoderVars>>

\* print("JSON_OUTPUT_START"); the range() loop starts at 0
TrWriteStart ==
    /\ pc = "t_start"
    /\ stdout' = Append(stdout, JSON_OUTPUT_START)
    /\ i' = 0
    /\ pc' = "t_loop"
    /\ UNCHANGED <<inputVars, stderr, exitCode, exc, results, json_str, k, downloadVars,
                   decoderVars>>

\* one iteration of: for i in range(0, len(json_str), MAX_CHUNK_SIZE)
TrWriteChunk ==
    /\ pc = "t_loop" /\ i < Len(json_str)
    /\ stdout' = Append(stdout, ChunkLine(chunk_slice(json_str, i, chunkSize)))
    /\ i' = range_next(i, chunkSize)
    /\ UNCHANGED <<inputVars, pc, stderr, exitCode, exc, results, json_str, k, downloadVars,
                   decoderVars>>

\* the loop is exhausted: print("JSON_OUTPUT_END"), the script falls off its end
TrWriteEnd ==
    /\ pc = "t_loop" /\ i >= Len(json_str)
    /\ stdout' = Append(stdout, JSON_OUTPUT_END)
    /\ pc' = "done"
    /\ UNCHANGED <<inputVars, stderr, exitCode, exc, workerLocals, downloadVars, decoderVars>>

\* ------------------------------------------------------------------------
\* Frame Decoder (parent side), run on the primary channel of the ended process
\* ------------------------------------------------------------------------
StripPrefix(line, p) == SubSeq(line, Len(p) + 1, Len(line))

Parse(buf) == LET r == ParseJSON(buf) IN IF r.ok THEN Ok(r.v) ELSE Err("MalformedPayload")

DecodeLine ==
    /\ pc = "done" /\ dstate \in {"Scanning", "Collecting", "Parsing"}
    /\ dpos < Len(stdout)
    /\ dpos' = dpos + 1
    /\ LET line == stdout[dpos + 1] IN
       CASE dstate = "Scanning" ->
              /\ dstate' = IF line = JSON_OUTPUT_START THEN "Collecting" ELSE "Scanning"
              /\ UNCHANGED <<dbuf, dresult>>
         [] dstate = "Collecting" ->
              IF StartsWith(line, CHUNK_PREFIX)
              THEN /\ dbuf' = dbuf \o StripPrefix(line, CHUNK_PREFIX)
                   /\ UNCHANGED <<dstate, dresult>>
              ELSE IF line = JSON_OUTPUT_END
              THEN /\ dstate' = "Parsing"
                   /\ dresult' = Parse(dbuf)
                   /\ UNCHANGED dbuf
              ELSE /\ dbuf' = dbuf \o line
                   /\ UNCHANGED <<dstate, dresult>>
         [] dstate = "Parsing" ->
              /\ dresult' = IF line = JSON_OUTPUT_START THEN Err("DuplicateFrame") ELSE dresult
              /\ UNCHANGED <<dstate, dbuf>>
    /\ UNCHANGED <<inputVars, pc, stdout, stderr, exitCode, exc, workerLocals, downloadVars>>

\* the stream ends
DecodeEnd ==
    /\ pc = "done" /\ dstate \in {"Scanning", "Collecting", "Parsing"}
    /\ dpos = Len(stdout)
    /\ dstate' = "Ended"
    /\ dresult' = IF dstate = "Parsing" THEN dresult ELSE Err("NoResultEmitted")
    /\ UNCHANGED <<inputVars, pc, stdout, stderr, exitCode, exc, workerLocals, downloadVars,
                   dpos, dbuf>>

Next ==
    \/ YtNoCommand \/ YtSetupOk \/ YtSetupFail \/ YtOtherCommand
    \/ YtDownloadMissingArgs \/ YtDownloadBegin
    \/ Tick \/ CollabRaise \/ CollabReturnFound \/ CollabReturnMissing
    \/ YtEmitLine \/ YtReturnTrue
    \/ TrMissingArg \/ TrBegin \/ TrCollabRaise \/ TrCollabReturn
    \/ TrWriteStart \/ TrWriteChunk \/ TrWriteEnd
    \/ DecodeLine \/ DecodeEnd

Spec == Init /\ [][Next]_vars

\* ------------------------------------------------------------------------
\* Reading the channels
\* ------------------------------------------------------------------------
Last(s) == s[Len(s)]

RECURSIVE Concat(_)
Concat(ss) == IF ss = <<>> THEN <<>> ELSE Head(ss) \o Concat(Tail(ss))

\* the fields of s between occurrences of the one-character delimiter sep
RECURSIVE SplitFrom(_, _, _, _)
SplitFrom(s, sep, n, cur) ==
    IF n > Len(s) THEN <<cur>>
    ELSE IF s[n] = sep THEN <<cur>> \o SplitFrom(s, sep, n + 1, <<>>)
    ELSE SplitFrom(s, sep, n + 1, Append(cur, s[n]))
Split(s, sep) == SplitFrom(s, sep, 1, <<>>)

StartPositions == { n \in DOMAIN stdout : stdout[n] = JSON_OUTPUT_START }
EndPositions == { n \in DOMAIN stdout : stdout[n] = JSON_OUTPUT_END }
\* a start sentinel, at least one payload line, an end sentinel
CompleteFrame == \E a \in StartPositions, b \in EndPositions : b > a + 1
NoFrameLine == StartPositions = {} /\ EndPositions = {}

IsDownloadJob ==
    script = "youtube_download" /\ Len(argv) >= 3 /\ argv[1] = <<"d","o","w","n","l","o","a","d">>

CeilDiv(a, b) == (a + b - 1) \div b

\* the lines of stdout strictly between its first and its last line
Inner == SubSeq(stdout, 2, Len(stdout) - 1)

\* ------------------------------------------------------------------------
\* C1: when the process has ended, either a complete Frame was written and
\* the exit code is 0, or no Frame line was written and the exit code is
\* non-zero. (Stated as claimed; "setup" and unknown commands end with exit
\* code 0 and no Frame.)
\* ------------------------------------------------------------------------
C1_FrameIffExitZero ==
    pc = "done" =>
        \/ CompleteFrame /\ exitCode = 0
        \/ NoFrameLine /\ exitCode # 0

\* ------------------------------------------------------------------------
\* C2: a download job whose collaborator returned and whose destination
\* file exists ends with exit code 0 and exactly one Frame on the primary
\* channel, which decodes to {success: true, file: <the output path>}.
\* ------------------------------------------------------------------------
C2_ExpectedRecord == << <<<<"s","u","c","c","e","s","s">>, BoolVal(TRUE)>>, <<<<"f","i","l","e">>, StrVal(argv[2])>> >>

C2_DownloadSuccess ==
    (IsDownloadJob /\ pc = "done" /\ dl = "returned" /\ exists = "yes") =>
        /\ exitCode = 0
        /\ Len(stdout) = 3
        /\ stdout[1] = JSON_OUTPUT_START
        /\ stdout[3] = JSON_OUTPUT_END
        /\ ParseJSON(stdout[2]) = ParseOk(C2_ExpectedRecord, Len(stdout[2]) + 1)
        /\ dstate = "Ended" => dresult = Ok(C2_ExpectedRecord)

C2_Witness ==
    /\ IsDownloadJob /\ pc = "done" /\ dl = "returned" /\ exists = "yes"
    /\ argv[2] = <<"a","\"","\\","\n">>
    /\ dstate = "Ended" /\ dresult.kind = "Ok"

\* ------------------------------------------------------------------------
\* C3: a download job whose collaborator raised, or whose destination file
\* is missing after the collaborator returned, has ended with a non-zero
\* exit code and a diagnostic on the diagnostic channel, and has written
\* nothing at all to the primary channel.
\* ------------------------------------------------------------------------
C3_DownloadFailure ==
    (IsDownloadJob /\ (dl = "raised" \/ exists = "no")) =>
        /\ pc = "done"
        /\ exitCode # 0
        /\ stderr # <<>>
        /\ StartsWith(Last(stderr), <<"E","r","r","o","r">>)
        /\ stdout = <<>>

C3_Witness ==
    /\ IsDownloadJob /\ pc = "done" /\ exists = "no"
    /\ Len(stderr) = 2 /\ StartsWith(stderr[1], PROGRESS_PREFIX)

\* ------------------------------------------------------------------------
\* C4: once the Frame Decoder has read the whole primary channel of a run
\* that framed a record, its outcome is Ok of exactly that record, for the
\* CHUNK-prefixed frames of the transcribe worker (one slice or many) and
\* the unprefixed payload line of the download worker.
\* ------------------------------------------------------------------------
C4_RoundTrip ==
    (dstate = "Ended" /\ results # <<>>) => dresult = Ok(results)

C4_Witness ==
    /\ script = "transcribe_script" /\ dstate = "Ended" /\ dresult.kind = "Ok"
    /\ Len(json_str) > chunkSize
    /\ \E n \in DOMAIN json_str : json_str[n] = "\\"

\* ------------------------------------------------------------------------
\* C5: when the serialized text is longer than the chunk bound, the Frame
\* of the transcribe worker holds exactly ceil(len/bound) CHUNK lines, every
\* slice but the last is exactly the bound long, the last is no longer, and
\* the slices in order concatenate to the serialized text.
\* ------------------------------------------------------------------------
C5_Slices == [n \in DOMAIN Inner |-> StripPrefix(Inner[n], CHUNK_PREFIX)]

C5_Chunking ==
    (script = "transcribe_script" /\ pc = "done" /\ exitCode = 0
        /\ Len(json_str) > chunkSize) =>
        /\ Len(Inner) = CeilDiv(Len(json_str), chunkSize)
        /\ \A n \in DOMAIN Inner : StartsWith(Inner[n], CHUNK_PREFIX)
        /\ \A n \in DOMAIN Inner : Len(C5_Slices[n]) <= chunkSize
        /\ \A n \in 1..(Len(Inner) - 1) : Len(C5_Slices[n]) = chunkSize
        /\ Concat(C5_Slices) = json_str

C5_Witness ==
    /\ script = "transcribe_script" /\ pc = "done" /\ exitCode = 0
    /\ Len(json_str) > chunkSize
    /\ Len(json_str) % chunkSize # 0
    /\ Len(Last(Inner)) < Len(Inner[1])

\* ------------------------------------------------------------------------
\* C6: a 'downloading' tick whose total size is unknown or zero is skipped
\* by the hook: no PROGRESS line, no error, and the download goes on.
\* (Stated as claimed; a null total_bytes_estimate makes the hook raise.)
\* ------------------------------------------------------------------------
C6_NoUsableTotal(x) == x \in {Absent, None, PyInt(0)}

C6_UnknownTotalSkipped ==
    (d.status = "downloading" /\ C6_NoUsableTotal(d.total_bytes)
        /\ C6_NoUsableTotal(d.total_bytes_estimate)) =>
        /\ hookOut = "skipped"
        /\ exc = "none"
        /\ pc = "y_download"

\* ------------------------------------------------------------------------
\* C7: in a transcribe job, an error raised while the job runs (missing
\* argument, collaborator raising, unencodable result) is caught: the
\* process has ended with exit code 1, the last text on the diagnostic
\* channel is the error diagnostic, and the primary channel is empty.
\* ------------------------------------------------------------------------
C7_TranscribeErrorCaught ==
    (script = "transcribe_script" /\ exc # "none") =>
        /\ pc = "done"
        /\ exitCode = 1
        /\ stderr # <<>>
        /\ StartsWith(Last(stderr), <<"E","r","r","o","r"," ","d","u","r","i","n","g"," ","t","r","a","n","s","c","r","i","p","t","i","o","n",":"," ">>)
        /\ stdout = <<>>

C7_Witness ==
    /\ script = "transcribe_script" /\ exc = "TypeError" /\ pc = "done"
    /\ Len(stderr) = 3

\* ------------------------------------------------------------------------
\* C8 as claimed: on every failure path the diagnostic written before the
\* non-zero exit begins with exactly "Error:".
\* ------------------------------------------------------------------------
C8_ErrorColonPrefix ==
    (pc = "done" /\ exitCode # 0) =>
        stderr # <<>> /\ StartsWith(Last(stderr), <<"E","r","r","o","r",":">>)

\* ------------------------------------------------------------------------
\* C8 as amended: on every failure path the diagnostic written before the
\* non-zero exit begins with the word "Error": with "Error downloading: "
\* when the download collaborator raised, with "Error during
\* transcription: " in transcribe_script.py, and with "Error: " on every
\* other path.
\* ------------------------------------------------------------------------
C8_ErrorWordPrefix ==
    (pc = "done" /\ exitCode # 0) =>
        /\ stderr # <<>>
        /\ StartsWith(Last(stderr), <<"E","r","r","o","r">>)
        /\ StartsWith(Last(stderr),
              IF script = "transcribe_script" THEN <<"E","r","r","o","r"," ","d","u","r","i","n","g"," ","t","r","a","n","s","c","r","i","p","t","i","o","n",":"," ">>
              ELSE IF dl = "raised" THEN <<"E","r","r","o","r"," ","d","o","w","n","l","o","a","d","i","n","g",":"," ">>
              ELSE <<"E","r","r","o","r",":"," ">>)

C8_Witness ==
    /\ script = "youtube_download" /\ pc = "done" /\ exitCode = 1
    /\ dl = "raised" /\ exc = "DownloadError"

\* ------------------------------------------------------------------------
\* C9: a PROGRESS line has exactly four pipe-delimited fields after the
\* prefix: percentage, speed, eta, elapsed. The speed field is "N/A"
\* exactly when the reported speed is 0 or missing and a MiB/s rate
\* otherwise; the eta field is "00:00" when the reported eta is 0 or
\* missing.
\* ------------------------------------------------------------------------
C9_Missing(x) == x \in {Absent, None, PyInt(0)}
C9_Fields == Split(StripPrefix(Last(stderr), PROGRESS_PREFIX), "|")

C9_ProgressLine ==
    (hookOut = "wrote" /\ pc = "y_download") =>
        /\ StartsWith(Last(stderr), PROGRESS_PREFIX)
        /\ Len(C9_Fields) = 4
        /\ C9_Fields[1] = (IF d.downloaded_bytes = Absent THEN <<"0",".","0">>
                           ELSE IF d.total_bytes = PyInt(4) THEN <<"2","5",".","0">>
                           ELSE <<"3","3",".","3">>)
        /\ C9_Fields[2] = <<"N","/","A">> <=> C9_Missing(d.speed)
        /\ d.speed = PyInt(1572864) => C9_Fields[2] = <<"1",".","5","0","M","i","B","/","s">>
        /\ C9_Missing(d.eta) => C9_Fields[3] = <<"0","0",":","0","0">>
        /\ d.eta = PyInt(75) => C9_Fields[3] = <<"0","1",":","1","5">>
        /\ C9_Fields[4] \in { <<"0","0",":","0","0">>, <<"0","1",":","0","1">> }

C9_Witness ==
    /\ hookOut = "wrote" /\ pc = "y_download"
    /\ d.speed = PyInt(0) /\ d.eta = None
    /\ C9_Fields[2] = <<"N","/","A">>

\* ------------------------------------------------------------------------
\* C10: at every point of a run that has written a start sentinel, the
\* primary channel is a prefix of: start sentinel, the payload lines in
\* increasing slice offset, end sentinel; the start sentinel occurs once,
\* and a run that has ended has written the whole of it and nothing after.
\* ------------------------------------------------------------------------
C10_Payload ==
    IF script = "transcribe_script"
    THEN [n \in 1..CeilDiv(Len(json_str), chunkSize) |->
            CHUNK_PREFIX \o SubSeq(json_str, (n - 1) * chunkSize + 1,
                                   Min(n * chunkSize, Len(json_str)))]
    ELSE << json_dumps(<< <<<<"s","u","c","c","e","s","s">>, BoolVal(TRUE)>>, <<<<"f","i","l","e">>, StrVal(argv[2])>> >>) >>

C10_Expected == <<JSON_OUTPUT_START>> \o C10_Payload \o <<JSON_OUTPUT_END>>

C10_FrameOrder ==
    (StartPositions # {}) =>
        /\ Len(stdout) <= Len(C10_Expected)
        /\ stdout = SubSeq(C10_Expected, 1, Len(stdout))
        /\ Cardinality(StartPositions) = 1
        /\ pc = "done" => stdout = C10_Expected

C10_Witness ==
    /\ pc = "done" /\ StartPositions # {}
    /\ Len(stdout) > 3
    /\ dstate = "Ended"

====
